---- MODULE Spec2Model ----
(***************************************************************************)
(* Oatmeal (src/oatmeal.py): the selection, host-matching and bulk         *)
(* deletion engine of the cookie manager, as a state machine.              *)
(*                                                                         *)
(* Strings are sequences of one-character strings, so that startswith,     *)
(* endswith, split, join, int() and str() are computed character by        *)
(* character as Python computes them.                                      *)
(***************************************************************************)
EXTENDS Integers, Sequences, FiniteSets, TLC

(***************************************************************************)
(* Bounds of the model.                                                    *)
(***************************************************************************)
\* number of cookies in the database when the program starts
MaxCookies == 3
\* longest whitelist / blacklist (entries)
MaxListLen == 3
\* most specs in one number_range argument of 'dn'
MaxSpecs == 2
\* largest value of the clock read by 'de'
MaxTime == 3
\* largest terminal page size
MaxPageSize == 2
\* longest host / pattern string handed to host_match in SpecMatch
MaxHostLen == 3

VARIABLES
    store,        \* rows of the cookies table of DB_PATH (a set of cookies)
    whitelist,    \* global whitelist (sequence of host strings)
    blacklist,    \* global blacklist
    sel_data,     \* selection.data (a sequence; meaningless while sel_type = "None")
    sel_type,     \* selection.type: "None", "cookies", "whitelist", "blacklist"
    sel_ref,      \* which list object selection.data IS: "whitelist", "blacklist", or "own"
    sel_page,     \* selection.page
    running,      \* "running", "exited" (sys.exit) or "crashed" (unhandled exception)
    out,          \* what the last statement reported: [cmd, status, msg, ct, fault]
    saved_wl,     \* contents of WL_PATH
    saved_bl,     \* contents of BL_PATH
    c_host,       \* SpecMatch: first argument of host_match
    bw_host,      \* SpecMatch: second argument of host_match
    hm_pc,        \* SpecMatch: "call" before host_match ran, "return" after
    hm_result,    \* SpecMatch: value returned by host_match
    dn_specs,     \* SpecRange: the specs typed, comma-separated, as the argument of dn
    dn_pc         \* SpecRange: "call" before cmd_delete_by_number ran, "return" after

vars == <<store, whitelist, blacklist, sel_data, sel_type, sel_ref, sel_page,
          running, out, saved_wl, saved_bl,
          c_host, bw_host, hm_pc, hm_result, dn_specs, dn_pc>>

main_vars == <<store, whitelist, blacklist, sel_data, sel_type, sel_ref, sel_page,
               running, out, saved_wl, saved_bl>>

hm_vars == <<c_host, bw_host, hm_pc, hm_result>>

dn_vars == <<dn_specs, dn_pc>>

(***************************************************************************)
(* Python string and list primitives.                                      *)
(***************************************************************************)
Range(s) == { s[i] : i \in 1..Len(s) }

\* str.startswith(prefix)
startswith(s, prefix) ==
    /\ Len(prefix) <= Len(s)
    /\ SubSeq(s, 1, Len(prefix)) = prefix

\* str.endswith(suffix)
endswith(s, suffix) ==
    /\ Len(suffix) <= Len(s)
    /\ SubSeq(s, Len(s) - Len(suffix) + 1, Len(s)) = suffix

\* `sub in s` for strings
contains(s, sub) ==
    \E i \in 0..(Len(s) - Len(sub)) : SubSeq(s, i + 1, i + Len(sub)) = sub

\* `x in lst` for lists
member(x, lst) == \E i \in 1..Len(lst) : lst[i] = x

\* `del lst[i]`, i zero-based and in range
del_at(lst, i) == SubSeq(lst, 1, i) \o SubSeq(lst, i + 2, Len(lst))

\* all sequences over S of length at most n
SeqsUpTo(S, n) == UNION { [1..k -> S] : k \in 0..n }

(***************************************************************************)
(* host_match                                                              *)
(***************************************************************************)
\* a plausible slip: the leading-dot test is left out, any suffix matches
host_match_any_suffix(h, p) ==
    IF h = p THEN TRUE
    ELSE IF endswith(h, p) THEN TRUE
    ELSE FALSE

\* a plausible slip: the pattern's dot is stripped before the suffix test
host_match_strip_dot(h, p) ==
    IF h = p THEN TRUE
    ELSE IF startswith(p, <<".">>) /\ endswith(h, Tail(p)) THEN TRUE
    ELSE FALSE

host_match(h, p) ==
    IF h = p THEN TRUE
    ELSE IF startswith(p, <<".">>) /\ endswith(h, p) THEN TRUE
    ELSE FALSE

(***************************************************************************)
(* SpecMatch: host_match applied to every pair of bounded strings.         *)
(***************************************************************************)
HostAlphabet == {".", "a", "b"}

HostStrings == SeqsUpTo(HostAlphabet, MaxHostLen)

IdleMain ==
    /\ store = {}
    /\ whitelist = <<>>
    /\ blacklist = <<>>
    /\ sel_data = <<>>
    /\ sel_type = "None"
    /\ sel_ref = "own"
    /\ sel_page = 0
    /\ running = "exited"
    /\ out = [cmd |-> "", status |-> 0, msg |-> "", ct |-> 0, fault |-> "none"]
    /\ saved_wl = <<>>
    /\ saved_bl = <<>>

InitMatch ==
    /\ IdleMain
    /\ c_host \in HostStrings
    /\ bw_host \in HostStrings
    /\ hm_pc = "call"
    /\ hm_result = FALSE
    /\ dn_specs = <<>>
    /\ dn_pc = "idle"

call_host_match ==
    /\ hm_pc = "call"
    /\ hm_result' = host_match(c_host, bw_host)
    /\ hm_pc' = "return"
    /\ UNCHANGED <<c_host, bw_host>>
    /\ UNCHANGED main_vars
    /\ UNCHANGED dn_vars

NextMatch == call_host_match

SpecMatch == InitMatch /\ [][NextMatch]_vars

(***************************************************************************)
(* The cookie database.  A cookie is a row of the cookies table; the rows   *)
(* the model starts from have distinct (host_key, name, path) keys and      *)
(* distinct creation times.                                                *)
(***************************************************************************)
HostCol == << <<"b">>, <<"b", ".", "b">>, <<"a", ".", "b">>, <<"a", ".", "b">>,
              <<".", "b">>, <<"b", ".", "b">>, <<"b">>, <<".", "b">> >>

NameCol == << "s", "s", "s", "t", "s", "t", "t", "t" >>

ExpiresCol == << 3, 1, 0, 2, 0, 4, 1, 2 >>

CookieRow(i) ==
    [host_key |-> HostCol[i], name |-> NameCol[i], path |-> "/",
     creation_utc |-> i, expires_utc |-> ExpiresCol[i]]

InitialRows == { CookieRow(i) : i \in 1..MaxCookies }

\* a plausible slip: host_key=? is missing from the WHERE clause
cookie_delete_by_name_path(db, cookies) ==
    { r \in db : ~\E i \in 1..Len(cookies) :
                     /\ r.name = cookies[i].name
                     /\ r.path = cookies[i].path }

\* DELETE FROM cookies WHERE host_key=? AND name=? AND path=?, for each cookie
cookie_delete(db, cookies) ==
    { r \in db : ~\E i \in 1..Len(cookies) :
                     /\ r.host_key = cookies[i].host_key
                     /\ r.name = cookies[i].name
                     /\ r.path = cookies[i].path }

\* ORDER BY creation_utc DESC
RECURSIVE order_by_creation_desc(_)
order_by_creation_desc(rows) ==
    IF rows = {} THEN <<>>
    ELSE LET newest == CHOOSE r \in rows : \A q \in rows : q.creation_utc <= r.creation_utc
         IN  <<newest>> \o order_by_creation_desc(rows \ {newest})

\* SQLite's LIKE on lower-case ASCII: % is any run of characters, _ any one
RECURSIVE like(_, _)
like(s, pat) ==
    IF pat = <<>> THEN s = <<>>
    ELSE IF Head(pat) = "%"
         THEN like(s, Tail(pat)) \/ (s # <<>> /\ like(Tail(s), pat))
    ELSE IF s = <<>> THEN FALSE
    ELSE (Head(pat) = "_" \/ Head(pat) = Head(s)) /\ like(Tail(s), Tail(pat))

\* cookie_find(), all rows
cookie_find_all(db) == order_by_creation_desc(db)

\* cookie_find('host_key LIKE ?', ('%host%',))
cookie_find_like(db, host) ==
    order_by_creation_desc(
        { r \in db : like(r.host_key, <<"%">> \o host \o <<"%">>) })

\* [x for x in lst if host in x]
RECURSIVE substring_matches(_, _)
substring_matches(lst, host) ==
    IF lst = <<>> THEN <<>>
    ELSE (IF contains(Head(lst), host) THEN <<Head(lst)>> ELSE <<>>)
         \o substring_matches(Tail(lst), host)

(***************************************************************************)
(* int(), str(), split(','), ','.join() and the regular expressions of     *)
(* cmd_delete_by_number.                                                   *)
(***************************************************************************)
DigitChars == <<"0", "1", "2", "3", "4", "5", "6", "7", "8", "9">>

IsDigit(ch) == \E d \in 1..10 : DigitChars[d] = ch

DigitVal(ch) == (CHOOSE d \in 1..10 : DigitChars[d] = ch) - 1

\* int(s) for a string of digits
RECURSIVE int(_)
int(s) ==
    IF s = <<>> THEN 0
    ELSE int(SubSeq(s, 1, Len(s) - 1)) * 10 + DigitVal(s[Len(s)])

\* str(n) for n >= 0
RECURSIVE str(_)
str(n) ==
    IF n < 10 THEN <<DigitChars[n + 1]>>
    ELSE str(n \div 10) \o <<DigitChars[(n % 10) + 1]>>

\* s.split(sep) for a one-character sep
RECURSIVE split(_, _)
split(s, sep) ==
    IF \E i \in 1..Len(s) : s[i] = sep
    THEN LET k == CHOOSE i \in 1..Len(s) :
                      s[i] = sep /\ \A j \in 1..(i - 1) : s[j] # sep
         IN  <<SubSeq(s, 1, k - 1)>> \o split(SubSeq(s, k + 1, Len(s)), sep)
    ELSE <<s>>

\* sep.join(parts)
RECURSIVE join(_, _)
join(sep, parts) ==
    IF parts = <<>> THEN <<>>
    ELSE IF Len(parts) = 1 THEN parts[1]
    ELSE parts[1] \o sep \o join(sep, Tail(parts))

\* re.match('^[0-9-]+$', spec)
re_digits_or_dash(spec) ==
    /\ Len(spec) >= 1
    /\ \A i \in 1..Len(spec) : IsDigit(spec[i]) \/ spec[i] = "-"

\* re.match('^[0-9]+$', spec)
re_number(spec) ==
    /\ Len(spec) >= 1
    /\ \A i \in 1..Len(spec) : IsDigit(spec[i])

\* re.match('^[0-9]+-[0-9]+$', spec)
re_range(spec) ==
    \E k \in 2..(Len(spec) - 1) :
        /\ spec[k] = "-"
        /\ re_number(SubSeq(spec, 1, k - 1))
        /\ re_number(SubSeq(spec, k + 1, Len(spec)))

\* list(range(start, end+1))
range_list(start, end) ==
    IF end < start THEN <<>> ELSE [i \in 1..(end - start + 1) |-> start + i - 1]

\* sorted(idxs, reverse=True)
RECURSIVE sorted_reverse(_)
sorted_reverse(idxs) ==
    IF idxs = <<>> THEN <<>>
    ELSE LET k == CHOOSE i \in 1..Len(idxs) : \A j \in 1..Len(idxs) : idxs[j] <= idxs[i]
         IN  <<idxs[k]>> \o sorted_reverse(del_at(idxs, k - 1))

\* int(num) of cmd_view succeeds: an optional sign and then digits
int_parses(num) ==
    IF num # <<>> /\ Head(num) \in {"-", "+"} THEN re_number(Tail(num))
    ELSE re_number(num)

\* int(num) for a num that parses
signed_int(num) ==
    IF Head(num) = "-" THEN 0 - int(Tail(num))
    ELSE IF Head(num) = "+" THEN int(Tail(num))
    ELSE int(num)

\* the keys of COMMANDS
CommandKeys ==
    { <<"#", "1">>, <<"s", "c", "a">>, <<"s", "c", "h">>, <<"s", "b", "a">>,
      <<"s", "b", "h">>, <<"s", "w", "a">>, <<"s", "w", "h">>,
      <<"#", "2">>, <<"l">>, <<">", "l", "s">>, <<"c">>, <<"n">>, <<"p">>,
      <<"#", "3">>, <<"v">>, <<"#", "4">>, <<"a", "h">>,
      <<"#", "5">>, <<"d", "n">>, <<"d", "a">>, <<"d", "e">>, <<"d", "b">>,
      <<"#", "6">>, <<"h">>, <<"x">>, <<"q">> }

(***************************************************************************)
(* What a command hands back: the status it returns (0 when it returns     *)
(* None), the message it prints, the count in a "Deleted" message, the     *)
(* exception it raises ("none" when it returns), and the selection data    *)
(* and database it leaves.                                                 *)
(***************************************************************************)
Res(status, msg, ct, fault, data, db) ==
    [status |-> status, msg |-> msg, ct |-> ct, fault |-> fault, data |-> data, db |-> db]

\* selection.data is a list (it is None until the first select command)
has_data == sel_type # "None"

\* any(host_match(c['host_key'], w) for w in whitelist)
whitelisted(c) == \E i \in 1..Len(whitelist) : host_match(c.host_key, whitelist[i])

(***************************************************************************)
(* cmd_delete_by_number                                                    *)
(***************************************************************************)
\* the validation loop over the specs; idxs is the list built so far
RECURSIVE validate_specs(_, _)
validate_specs(specs, idxs) ==
    IF specs = <<>> THEN [res |-> "ok", idxs |-> idxs]
    ELSE LET spec == Head(specs) IN
         IF ~re_digits_or_dash(spec)
         THEN [res |-> "invalid_chars", idxs |-> idxs]
         ELSE IF re_range(spec)
         THEN LET k     == CHOOSE i \in 1..Len(spec) : spec[i] = "-"
                  start == int(SubSeq(spec, 1, k - 1))
                  end   == int(SubSeq(spec, k + 1, Len(spec)))
              IN  IF start < 1 THEN [res |-> "out_of_range", idxs |-> idxs]
                  ELSE IF ~has_data THEN [res |-> "TypeError", idxs |-> idxs]
                  ELSE IF end > Len(sel_data) THEN [res |-> "out_of_range", idxs |-> idxs]
                  ELSE validate_specs(Tail(specs), idxs \o range_list(start, end))
         ELSE IF re_number(spec)
         THEN LET n == int(spec)
              IN  IF n < 1 THEN [res |-> "out_of_range", idxs |-> idxs]
                  ELSE IF ~has_data THEN [res |-> "TypeError", idxs |-> idxs]
                  ELSE IF n > Len(sel_data) THEN [res |-> "out_of_range", idxs |-> idxs]
                  ELSE validate_specs(Tail(specs), idxs \o <<n>>)
         ELSE [res |-> "unsupported", idxs |-> idxs]

\* for idx in <idxs, descending>: del data[idx]   (zero-based idxs)
RECURSIVE delete_loop(_, _, _)
delete_loop(data, idxs, ct) ==
    IF idxs = <<>> THEN [data |-> data, ct |-> ct, fault |-> "none"]
    ELSE IF Head(idxs) >= Len(data)
         THEN [data |-> data, ct |-> ct, fault |-> "IndexError"]
    ELSE delete_loop(del_at(data, Head(idxs)), Tail(idxs), ct + 1)

\* a plausible slip: the cookies are deleted from the DB and left in the selection
delete_validated_store_only(idxs) ==
    LET to_del == [i \in 1..Len(idxs) |-> sel_data[idxs[i]]]
        db     == IF sel_type = "cookies" THEN cookie_delete(store, to_del) ELSE store
    IN  Res(0, "Deleted", Len(idxs), "none", sel_data, db)

\* lines 368-391, once every spec has been validated
delete_validated(idxs) ==
    LET to_del == [i \in 1..Len(idxs) |-> sel_data[idxs[i]]]
        db     == IF sel_type = "cookies" THEN cookie_delete(store, to_del) ELSE store
        sorted == sorted_reverse(idxs)
        loop   == delete_loop(sel_data, [i \in 1..Len(sorted) |-> sorted[i] - 1], 0)
    IN  IF loop.fault # "none"
        THEN Res(0, "", loop.ct, loop.fault, loop.data, db)
        ELSE Res(0, "Deleted", loop.ct, "none", loop.data, db)

\* a plausible slip: the specs validated before the bad one are deleted anyway
delete_by_number_eager(number_range) ==
    IF number_range = <<>> THEN Res(1, "missing_arg", 0, "none", sel_data, store)
    ELSE LET v == validate_specs(split(number_range, ","), <<>>) IN
         IF v.res = "TypeError" THEN Res(0, "", 0, "TypeError", sel_data, store)
         ELSE IF v.res # "ok"
              THEN LET d == delete_validated(v.idxs)
                   IN  Res(1, v.res, 0, d.fault, d.data, d.db)
         ELSE delete_validated(v.idxs)

delete_by_number(number_range) ==
    IF number_range = <<>> THEN Res(1, "missing_arg", 0, "none", sel_data, store)
    ELSE LET v == validate_specs(split(number_range, ","), <<>>) IN
         IF v.res = "TypeError" THEN Res(0, "", 0, "TypeError", sel_data, store)
         ELSE IF v.res # "ok" THEN Res(1, v.res, 0, "none", sel_data, store)
         ELSE delete_validated(v.idxs)

(***************************************************************************)
(* cmd_delete_all                                                          *)
(***************************************************************************)
\* [i for i, x in enumerate(data) if flag(x)]: the zero-based positions, ascending,
\* whose flag is set (flags[i] is the flag of the i-th item, one-based)
RECURSIVE positions_where(_, _, _)
positions_where(flags, i, acc) ==
    IF i > Len(flags) THEN acc
    ELSE positions_where(flags, i + 1, IF flags[i] THEN acc \o <<i - 1>> ELSE acc)

\* a plausible slip: the whitelist is not consulted
delete_all_no_whitelist ==
    IF sel_type = "cookies"
    THEN Res(0, "Deleted", Len(sel_data), "none", <<>>, cookie_delete(store, sel_data))
    ELSE IF ~has_data THEN Res(0, "", 0, "TypeError", sel_data, store)
    ELSE Res(0, "Deleted", Len(sel_data), "none", <<>>, store)

delete_all ==
    IF sel_type = "cookies"
    THEN LET idxs   == positions_where([i \in 1..Len(sel_data) |-> ~whitelisted(sel_data[i])],
                                       1, <<>>)
             to_del == [i \in 1..Len(idxs) |-> sel_data[idxs[i] + 1]]
             db     == cookie_delete(store, to_del)
             loop   == delete_loop(sel_data, sorted_reverse(idxs), 0)
         IN  Res(0, IF loop.fault = "none" THEN "Deleted" ELSE "", Len(idxs),
                 loop.fault, loop.data, db)
    ELSE IF ~has_data THEN Res(0, "", 0, "TypeError", sel_data, store)
    ELSE Res(0, "Deleted", Len(sel_data), "none", <<>>, store)

(***************************************************************************)
(* cmd_delete_by_expired; ts is datetime_to_ts(datetime.utcnow())          *)
(***************************************************************************)
\* a plausible slip: <= for <
delete_by_expired_le(ts) ==
    IF sel_type # "cookies" THEN Res(1, "cookies_only", 0, "none", sel_data, store)
    ELSE LET idxs   == positions_where([i \in 1..Len(sel_data) |->
                                            sel_data[i].expires_utc <= ts], 1, <<>>)
             to_del == [i \in 1..Len(idxs) |-> sel_data[idxs[i] + 1]]
             loop   == delete_loop(sel_data, sorted_reverse(idxs), 0)
         IN  Res(0, "Deleted", loop.ct, loop.fault, loop.data, cookie_delete(store, to_del))

delete_by_expired(ts) ==
    IF sel_type # "cookies" THEN Res(1, "cookies_only", 0, "none", sel_data, store)
    ELSE LET idxs   == positions_where([i \in 1..Len(sel_data) |->
                                            sel_data[i].expires_utc < ts], 1, <<>>)
             to_del == [i \in 1..Len(idxs) |-> sel_data[idxs[i] + 1]]
             db     == cookie_delete(store, to_del)
             loop   == delete_loop(sel_data, sorted_reverse(idxs), 0)
         IN  Res(0, IF loop.fault = "none" THEN "Deleted" ELSE "", loop.ct,
                 loop.fault, loop.data, db)

(***************************************************************************)
(* cmd_delete_by_blacklist                                                 *)
(***************************************************************************)
\* the one-based idxs appended while scanning the selection for one bl_host
blacklist_hits(bl_host) ==
    LET hits == positions_where([i \in 1..Len(sel_data) |->
                                    /\ host_match(sel_data[i].host_key, bl_host)
                                    /\ ~whitelisted(sel_data[i])], 1, <<>>)
    IN  [i \in 1..Len(hits) |-> hits[i] + 1]

\* idxs after the loop over the blacklist entries bl[1..]
RECURSIVE blacklist_idxs(_)
blacklist_idxs(bl) ==
    IF bl = <<>> THEN <<>>
    ELSE blacklist_hits(Head(bl)) \o blacklist_idxs(Tail(bl))

delete_by_blacklist ==
    IF sel_type # "cookies" THEN Res(1, "cookies_only", 0, "none", sel_data, store)
    ELSE LET idxs == blacklist_idxs(blacklist) IN
         IF idxs # <<>>
         THEN delete_by_number(join(<<",">>, [i \in 1..Len(idxs) |-> str(idxs[i])]))
         ELSE Res(0, "", 0, "none", sel_data, store)

(***************************************************************************)
(* Arguments the user types.                                               *)
(***************************************************************************)
\* the whitelist and blacklist files the program starts from: the whitelist
\* protects b.b, the blacklist names .b
ListFiles ==
    { << << <<"b", ".", "b">> >>, << <<".", "b">> >> >> }

\* the host argument of sch / sbh / swh; <<>> stands for a missing argument
SearchHosts == { <<>>, <<"a">>, <<"_", ".">> }

\* the host argument of ah; <<>> stands for a missing argument
AddHosts == { <<>>, <<"a", ".", "b">> }

\* the number_range argument of dn in Spec; <<>> stands for a missing argument
NumberRanges ==
    { <<>>, <<"1">>, <<"2">>, <<"1", "-", "2">>, <<"1", ",", "1">>, <<"x">> }

\* single specs of a number_range in SpecRange
SpecStrings ==
    { <<"1">>, <<"2">>, <<"3">>, <<"0">>, <<"9">>,
      <<"1", "-", "2">>, <<"2", "-", "1">>, <<"2", "-", "9">>, <<"0", "-", "1">>,
      <<"1", "-">>, <<"x">> }

\* the lists of specs typed in SpecRange; <<>> stands for a missing argument
SpecLists == SeqsUpTo(SpecStrings, MaxSpecs)

\* the num argument of v; <<>> stands for a missing argument
ViewNums == { <<>>, <<"1">>, <<"3">>, <<"-", "1">>, <<"x">> }

\* the command argument of h; <<>> stands for a missing argument
HelpCommands == { <<>>, <<"d", "n">>, <<"z">> }

\* first words of statements that are not keys of COMMANDS naming a function:
\* the empty statement, the alias ls, a sub-header key and an unknown word
OtherWords == { <<>>, <<"l", "s">>, <<"#", "1">>, <<"z">> }

\* readings of the clock, as datetime_to_ts gives them
Times == 1..MaxTime

\* Console().size.height - 6
PageSizes == 1..MaxPageSize

(***************************************************************************)
(* The commands, as handle_statement runs them.                            *)
(***************************************************************************)
Out(cmd, status, msg, ct, fault) ==
    [cmd |-> cmd, status |-> status, msg |-> msg, ct |-> ct, fault |-> fault]

\* the whitelist / blacklist after selection.data became `data`: the list the
\* selection is an alias of changes with it
aliased(name, lst, data) == IF sel_ref = name THEN data ELSE lst

\* Selection.set(data, title, page=0, type)
selection_set(data, type, ref) ==
    /\ sel_data' = data
    /\ sel_type' = type
    /\ sel_ref' = ref
    /\ sel_page' = 0

\* a delete command ended with result r
apply_delete(cmd, r) ==
    /\ sel_data' = r.data
    /\ store' = r.db
    /\ whitelist' = aliased("whitelist", whitelist, r.data)
    /\ blacklist' = aliased("blacklist", blacklist, r.data)
    /\ out' = Out(cmd, r.status, r.msg, r.ct, r.fault)
    /\ running' = IF r.fault = "none" THEN "running" ELSE "crashed"
    /\ UNCHANGED <<sel_type, sel_ref, sel_page, saved_wl, saved_bl>>

cmd_select_cookies_all ==
    /\ running = "running"
    /\ selection_set(cookie_find_all(store), "cookies", "own")
    /\ out' = Out("sca", 0, "", 0, "none")
    /\ UNCHANGED <<store, whitelist, blacklist, running, saved_wl, saved_bl>>
    /\ UNCHANGED <<hm_vars, dn_vars>>

cmd_select_cookies_by_host(host) ==
    /\ running = "running"
    /\ IF host = <<>>
       THEN /\ out' = Out("sch", 1, "missing_arg", 0, "none")
            /\ UNCHANGED <<sel_data, sel_type, sel_ref, sel_page>>
       ELSE /\ selection_set(cookie_find_like(store, host), "cookies", "own")
            /\ out' = Out("sch", 0, "", 0, "none")
    /\ UNCHANGED <<store, whitelist, blacklist, running, saved_wl, saved_bl>>
    /\ UNCHANGED <<hm_vars, dn_vars>>

cmd_select_blacklist_all ==
    /\ running = "running"
    /\ selection_set(blacklist, "blacklist", "blacklist")
    /\ out' = Out("sba", 0, "", 0, "none")
    /\ UNCHANGED <<store, whitelist, blacklist, running, saved_wl, saved_bl>>
    /\ UNCHANGED <<hm_vars, dn_vars>>

cmd_select_blacklist_by_host(host) ==
    /\ running = "running"
    /\ IF host = <<>>
       THEN /\ out' = Out("sbh", 1, "missing_arg", 0, "none")
            /\ UNCHANGED <<sel_data, sel_type, sel_ref, sel_page>>
       ELSE /\ selection_set(substring_matches(blacklist, host), "blacklist", "own")
            /\ out' = Out("sbh", 0, "", 0, "none")
    /\ UNCHANGED <<store, whitelist, blacklist, running, saved_wl, saved_bl>>
    /\ UNCHANGED <<hm_vars, dn_vars>>

cmd_select_whitelist_all ==
    /\ running = "running"
    /\ selection_set(whitelist, "whitelist", "whitelist")
    /\ out' = Out("swa", 0, "", 0, "none")
    /\ UNCHANGED <<store, whitelist, blacklist, running, saved_wl, saved_bl>>
    /\ UNCHANGED <<hm_vars, dn_vars>>

cmd_select_whitelist_by_host(host) ==
    /\ running = "running"
    /\ IF host = <<>>
       THEN /\ out' = Out("swh", 1, "missing_arg", 0, "none")
            /\ UNCHANGED <<sel_data, sel_type, sel_ref, sel_page>>
       ELSE /\ selection_set(substring_matches(whitelist, host), "whitelist", "own")
            /\ out' = Out("swh", 0, "", 0, "none")
    /\ UNCHANGED <<store, whitelist, blacklist, running, saved_wl, saved_bl>>
    /\ UNCHANGED <<hm_vars, dn_vars>>

\* a plausible slip: the test for a cookie selection is left out
add_host_any_kind(host, lst) ==
    IF host = <<>> THEN [status |-> 1, msg |-> "missing_arg", fault |-> "none", lst |-> lst]
    ELSE IF sel_type = "None"
         THEN [status |-> 0, msg |-> "", fault |-> "KeyError", lst |-> lst]
    ELSE IF member(host, lst)
         THEN [status |-> 1, msg |-> "already_in_list", fault |-> "none", lst |-> lst]
    ELSE [status |-> 0, msg |-> "Added", fault |-> "none", lst |-> Append(lst, host)]

\* a plausible slip: the `host in lst` test is left out
add_host_unchecked(host, lst) ==
    IF host = <<>> THEN [status |-> 1, msg |-> "missing_arg", fault |-> "none", lst |-> lst]
    ELSE IF sel_type = "cookies"
         THEN [status |-> 1, msg |-> "lists_only", fault |-> "none", lst |-> lst]
    ELSE IF sel_type = "None"
         THEN [status |-> 0, msg |-> "", fault |-> "KeyError", lst |-> lst]
    ELSE [status |-> 0, msg |-> "Added", fault |-> "none", lst |-> Append(lst, host)]

\* what cmd_add_host does with the list `lst` named by selection.type
add_host(host, lst) ==
    IF host = <<>> THEN [status |-> 1, msg |-> "missing_arg", fault |-> "none", lst |-> lst]
    ELSE IF sel_type = "cookies"
         THEN [status |-> 1, msg |-> "lists_only", fault |-> "none", lst |-> lst]
    ELSE IF sel_type = "None"
         THEN [status |-> 0, msg |-> "", fault |-> "KeyError", lst |-> lst]
    ELSE IF member(host, lst)
         THEN [status |-> 1, msg |-> "already_in_list", fault |-> "none", lst |-> lst]
    ELSE [status |-> 0, msg |-> "Added", fault |-> "none", lst |-> Append(lst, host)]

cmd_add_host(host) ==
    /\ running = "running"
    /\ LET lst == IF sel_type = "whitelist" THEN whitelist ELSE blacklist
           r   == add_host(host, lst)
       IN  /\ Len(r.lst) <= MaxListLen
           /\ whitelist' = IF sel_type = "whitelist" THEN r.lst ELSE whitelist
           /\ blacklist' = IF sel_type = "blacklist" THEN r.lst ELSE blacklist
           /\ sel_data' = IF sel_ref = sel_type THEN r.lst ELSE sel_data
           /\ out' = Out("ah", r.status, r.msg, 0, r.fault)
           /\ running' = IF r.fault = "none" THEN "running" ELSE "crashed"
    /\ UNCHANGED <<store, sel_type, sel_ref, sel_page, saved_wl, saved_bl>>
    /\ UNCHANGED <<hm_vars, dn_vars>>

cmd_delete_by_number(number_range) ==
    /\ running = "running"
    /\ apply_delete("dn", delete_by_number(number_range))
    /\ UNCHANGED <<hm_vars, dn_vars>>

cmd_delete_all ==
    /\ running = "running"
    /\ apply_delete("da", delete_all)
    /\ UNCHANGED <<hm_vars, dn_vars>>

cmd_delete_by_expired(ts) ==
    /\ running = "running"
    /\ apply_delete("de", delete_by_expired(ts))
    /\ UNCHANGED <<hm_vars, dn_vars>>

cmd_delete_by_blacklist ==
    /\ running = "running"
    /\ apply_delete("db", delete_by_blacklist)
    /\ UNCHANGED <<hm_vars, dn_vars>>

\* a plausible slip: > for >= in the last-page test
cmd_next_page_gt(pg) ==
    /\ running = "running"
    /\ IF ~has_data
       THEN /\ out' = Out("n", 0, "", 0, "TypeError")
            /\ running' = "crashed"
            /\ UNCHANGED sel_page
       ELSE IF (sel_page + 1) * pg > Len(sel_data)
       THEN /\ out' = Out("n", 0, "last_page", 0, "none")
            /\ UNCHANGED <<sel_page, running>>
       ELSE /\ sel_page' = sel_page + 1
            /\ out' = Out("n", 0, "", 0, "none")
            /\ UNCHANGED running
    /\ UNCHANGED <<store, whitelist, blacklist, sel_data, sel_type, sel_ref, saved_wl, saved_bl>>
    /\ UNCHANGED <<hm_vars, dn_vars>>

\* pg is page_size(), the terminal height less six rows; the listing that
\* follows on a terminal prints the page and changes nothing
cmd_next_page(pg) ==
    /\ running = "running"
    /\ IF ~has_data
       THEN /\ out' = Out("n", 0, "", 0, "TypeError")
            /\ running' = "crashed"
            /\ UNCHANGED sel_page
       ELSE IF (sel_page + 1) * pg >= Len(sel_data)
       THEN /\ out' = Out("n", 0, "last_page", 0, "none")
            /\ UNCHANGED <<sel_page, running>>
       ELSE /\ sel_page' = sel_page + 1
            /\ out' = Out("n", 0, "", 0, "none")
            /\ UNCHANGED running
    /\ UNCHANGED <<store, whitelist, blacklist, sel_data, sel_type, sel_ref, saved_wl, saved_bl>>
    /\ UNCHANGED <<hm_vars, dn_vars>>

\* a plausible slip: the test for page 0 is left out
cmd_prev_page_unguarded ==
    /\ running = "running"
    /\ sel_page' = sel_page - 1
    /\ out' = Out("p", 0, "", 0, "none")
    /\ UNCHANGED <<store, whitelist, blacklist, sel_data, sel_type, sel_ref, running,
                   saved_wl, saved_bl>>
    /\ UNCHANGED <<hm_vars, dn_vars>>

cmd_prev_page ==
    /\ running = "running"
    /\ IF sel_page = 0
       THEN /\ out' = Out("p", 0, "first_page", 0, "none")
            /\ UNCHANGED sel_page
       ELSE /\ sel_page' = sel_page - 1
            /\ out' = Out("p", 0, "", 0, "none")
    /\ UNCHANGED <<store, whitelist, blacklist, sel_data, sel_type, sel_ref, running,
                   saved_wl, saved_bl>>
    /\ UNCHANGED <<hm_vars, dn_vars>>

\* a command that changes nothing but what it reports
report(cmd, status, msg, ct, fault) ==
    /\ out' = Out(cmd, status, msg, ct, fault)
    /\ running' = IF fault = "none" THEN "running" ELSE "crashed"
    /\ UNCHANGED <<store, whitelist, blacklist, sel_data, sel_type, sel_ref, sel_page,
                   saved_wl, saved_bl>>
    /\ UNCHANGED <<hm_vars, dn_vars>>

cmd_list ==
    /\ running = "running"
    /\ IF ~has_data THEN report("l", 1, "no_selection", 0, "none")
       ELSE report("l", 0, "", 0, "none")

cmd_count ==
    /\ running = "running"
    /\ IF ~has_data THEN report("c", 0, "", 0, "TypeError")
       ELSE report("c", 0, "count", Len(sel_data), "none")

cmd_view(num) ==
    /\ running = "running"
    /\ IF num = <<>> THEN report("v", 1, "missing_arg", 0, "none")
       ELSE IF ~int_parses(num) THEN report("v", 1, "invalid_number", 0, "none")
       ELSE IF signed_int(num) < 1 THEN report("v", 1, "exceeds_range", 0, "none")
       ELSE IF ~has_data THEN report("v", 0, "", 0, "TypeError")
       ELSE IF signed_int(num) > Len(sel_data) THEN report("v", 1, "exceeds_range", 0, "none")
       ELSE IF sel_type # "cookies" THEN report("v", 1, "cookies_only", 0, "none")
       ELSE report("v", 0, "", 0, "none")

cmd_help(command) ==
    /\ running = "running"
    /\ IF command # <<>> /\ command \notin CommandKeys
       THEN report("h", 1, "unknown_command", 0, "none")
       ELSE report("h", 0, "", 0, "none")

\* handle_statement on a first word that does not name a function of COMMANDS
handle_other(cmd) ==
    /\ running = "running"
    /\ IF cmd = <<>> THEN report("", 0, "", 0, "none")
       ELSE IF startswith(cmd, <<"#">>) \/ startswith(cmd, <<">">>) \/ cmd \notin CommandKeys
       THEN IF (<<">">> \o cmd) \in CommandKeys
            THEN cmd_list
            ELSE report("?", 0, "unknown_command", 0, "none")
       ELSE FALSE

\* shutdown(save=True): 'q', end of input, or the end of the -e commands
cmd_quit ==
    /\ running = "running"
    /\ saved_wl' = whitelist
    /\ saved_bl' = blacklist
    /\ running' = "exited"
    /\ out' = Out("q", 0, "", 0, "none")
    /\ UNCHANGED <<store, whitelist, blacklist, sel_data, sel_type, sel_ref, sel_page>>
    /\ UNCHANGED <<hm_vars, dn_vars>>

\* a plausible slip: shutdown() for shutdown(save=False)
cmd_exit_saving ==
    /\ running = "running"
    /\ saved_wl' = whitelist
    /\ saved_bl' = blacklist
    /\ running' = "exited"
    /\ out' = Out("x", 0, "", 0, "none")
    /\ UNCHANGED <<store, whitelist, blacklist, sel_data, sel_type, sel_ref, sel_page>>
    /\ UNCHANGED <<hm_vars, dn_vars>>

\* shutdown(save=False)
cmd_exit ==
    /\ running = "running"
    /\ running' = "exited"
    /\ out' = Out("x", 0, "", 0, "none")
    /\ UNCHANGED <<store, whitelist, blacklist, sel_data, sel_type, sel_ref, sel_page,
                   saved_wl, saved_bl>>
    /\ UNCHANGED <<hm_vars, dn_vars>>

(***************************************************************************)
(* The state when main has loaded the lists: selection is still            *)
(* Selection(data=None, title=None, page=0, type=None).  With -e the       *)
(* commands of the user run from here; without it main runs                *)
(* cmd_select_cookies_all first, which is the step cmd_select_cookies_all  *)
(* from here.                                                              *)
(***************************************************************************)
Init ==
    /\ store = InitialRows
    /\ \E files \in ListFiles : whitelist = files[1] /\ blacklist = files[2]
    /\ saved_wl = whitelist
    /\ saved_bl = blacklist
    /\ sel_data = <<>>
    /\ sel_type = "None"
    /\ sel_ref = "own"
    /\ sel_page = 0
    /\ running = "running"
    /\ out = Out("", 0, "", 0, "none")
    /\ c_host = <<>>
    /\ bw_host = <<>>
    /\ hm_pc = "idle"
    /\ hm_result = FALSE
    /\ dn_specs = <<>>
    /\ dn_pc = "idle"

Next ==
    \/ cmd_select_cookies_all
    \/ \E host \in SearchHosts : cmd_select_cookies_by_host(host)
    \/ cmd_select_blacklist_all
    \/ \E host \in SearchHosts : cmd_select_blacklist_by_host(host)
    \/ cmd_select_whitelist_all
    \/ \E host \in SearchHosts : cmd_select_whitelist_by_host(host)
    \/ \E host \in AddHosts : cmd_add_host(host)
    \/ \E number_range \in NumberRanges : cmd_delete_by_number(number_range)
    \/ cmd_delete_all
    \/ \E ts \in Times : cmd_delete_by_expired(ts)
    \/ cmd_delete_by_blacklist
    \/ \E pg \in PageSizes : cmd_next_page(pg)
    \/ cmd_prev_page
    \/ cmd_list
    \/ cmd_count
    \/ \E num \in ViewNums : cmd_view(num)
    \/ \E command \in HelpCommands : cmd_help(command)
    \/ \E cmd \in OtherWords : handle_other(cmd)
    \/ cmd_quit
    \/ cmd_exit

Spec == Init /\ [][Next]_vars

(***************************************************************************)
(* SpecRange: cmd_delete_by_number applied once to every bounded list of   *)
(* specs, on the selection of all cookies of a database (any of the rows   *)
(* may be missing from it), on the full whitelist and on the full          *)
(* blacklist.                                                              *)
(***************************************************************************)
InitRange ==
    /\ \E files \in ListFiles : whitelist = files[1] /\ blacklist = files[2]
    /\ saved_wl = whitelist
    /\ saved_bl = blacklist
    /\ store \in SUBSET InitialRows
    /\ sel_type \in {"cookies", "whitelist", "blacklist"}
    /\ sel_type # "cookies" => store = InitialRows
    /\ sel_ref = IF sel_type = "cookies" THEN "own" ELSE sel_type
    /\ sel_data = CASE sel_type = "cookies" -> cookie_find_all(store)
                     [] sel_type = "whitelist" -> whitelist
                     [] sel_type = "blacklist" -> blacklist
    /\ sel_page = 0
    /\ running = "running"
    /\ out = Out("", 0, "", 0, "none")
    /\ c_host = <<>>
    /\ bw_host = <<>>
    /\ hm_pc = "idle"
    /\ hm_result = FALSE
    /\ dn_specs \in SpecLists
    /\ dn_pc = "call"

call_delete_by_number ==
    /\ dn_pc = "call"
    /\ apply_delete("dn", delete_by_number(join(<<",">>, dn_specs)))
    /\ dn_pc' = "return"
    /\ UNCHANGED dn_specs
    /\ UNCHANGED hm_vars

NextRange == call_delete_by_number

SpecRange == InitRange /\ [][NextRange]_vars

(***************************************************************************)
(* C9 and C10: the host matcher, under SpecMatch.                          *)
(***************************************************************************)
LeadingDot(p) == Len(p) >= 1 /\ p[1] = "."

LiteralSuffix(h, p) ==
    /\ Len(p) <= Len(h)
    /\ \A i \in 1..Len(p) : h[Len(h) - Len(p) + i] = p[i]

\* p with its leading dot removed, p[1:]
WithoutDot(p) == [i \in 1..(Len(p) - 1) |-> p[i + 1]]

C10_MatchIsEqualityOrDotSuffix ==
    (hm_pc = "return") =>
        /\ hm_result <=>
              (c_host = bw_host \/ (LeadingDot(bw_host) /\ LiteralSuffix(c_host, bw_host)))
        /\ (~LeadingDot(bw_host)) => (hm_result <=> (c_host = bw_host))
        /\ (c_host = bw_host) => hm_result

\* a dot-less pattern that is a proper suffix of the host was tried and rejected
C10_Witness ==
    /\ hm_pc = "return"
    /\ ~LeadingDot(bw_host)
    /\ Len(bw_host) >= 1
    /\ c_host # bw_host
    /\ LiteralSuffix(c_host, bw_host)
    /\ ~hm_result

(***************************************************************************)
(* Vocabulary of the claims about the delete commands, under Spec.         *)
(***************************************************************************)
\* the host matching rule of the specification
Matches(h, p) == h = p \/ (LeadingDot(p) /\ LiteralSuffix(h, p))

Protected(c) == \E i \in 1..Len(whitelist) : Matches(c.host_key, whitelist[i])

Blacklisted(c) == \E i \in 1..Len(blacklist) : Matches(c.host_key, blacklist[i])

\* the selection is a cookie selection of a running session
CookieSelection == running = "running" /\ sel_type = "cookies"

\* the step just taken was the command cmd, issued on a cookie selection
CookieStep(cmd) == sel_type = "cookies" /\ out'.cmd = cmd

\* data without the items at the one-based positions in S, order kept
RECURSIVE Without(_, _, _)
Without(data, S, i) ==
    IF i > Len(data) THEN <<>>
    ELSE (IF i \in S THEN <<>> ELSE <<data[i]>>) \o Without(data, S, i + 1)

\* the items of data that satisfy keep, order kept
Kept(data, keep(_)) == Without(data, { i \in 1..Len(data) : ~keep(data[i]) }, 1)

\* SpecRange: the step is the call of cmd_delete_by_number on a selection
RangeStep == dn_pc = "call" /\ dn_pc' = "return" /\ has_data

\* a spec is a number n, 1 <= n <= max
GoodNumber(spec, max) == re_number(spec) /\ int(spec) >= 1 /\ int(spec) <= max

\* a spec is start-end with 1 <= start and end <= max
GoodRange(spec, max) ==
    \E k \in 2..(Len(spec) - 1) :
        /\ spec[k] = "-"
        /\ re_number(SubSeq(spec, 1, k - 1))
        /\ re_number(SubSeq(spec, k + 1, Len(spec)))
        /\ int(SubSeq(spec, 1, k - 1)) >= 1
        /\ int(SubSeq(spec, k + 1, Len(spec))) <= max

GoodSpec(spec, max) == GoodNumber(spec, max) \/ GoodRange(spec, max)

\* the indices a good spec names
SpecIndices(spec) ==
    IF re_number(spec) THEN { int(spec) }
    ELSE LET k == CHOOSE i \in 1..Len(spec) : spec[i] = "-"
         IN  int(SubSeq(spec, 1, k - 1)) .. int(SubSeq(spec, k + 1, Len(spec)))

IndexSet(specs) == UNION { SpecIndices(specs[i]) : i \in 1..Len(specs) }

(***************************************************************************)
(* C1 - C8                                                                 *)
(***************************************************************************)
\* C1: delete-by-blacklist never touches a whitelisted cookie: every cookie of
\* the selection whose host matches a whitelist pattern is, after db, still in
\* the selection and still in the store.
C1_BlacklistDeleteSparesWhitelisted ==
    [][CookieStep("db") =>
          \A i \in 1..Len(sel_data) :
              Protected(sel_data[i]) =>
                  /\ member(sel_data[i], sel_data')
                  /\ sel_data[i] \in store => sel_data[i] \in store']_vars

\* C2: delete-by-blacklist removes from the selection exactly the cookies that
\* match some blacklist pattern and no whitelist pattern, each once, and no
\* other item, however many blacklist patterns a cookie matches.
C2_BlacklistDeleteRemovesExactlyCandidates ==
    [][CookieStep("db") =>
          /\ out'.fault = "none"
          /\ LET keep(c) == ~(Blacklisted(c) /\ ~Protected(c))
             IN  sel_data' = Kept(sel_data, keep)]_vars

\* C3: delete-expired never removes a session cookie: every cookie of the
\* selection with expires_utc = 0 is still in the selection and in the store
\* after de.
C3_ExpiredDeleteKeepsSessionCookies ==
    [][CookieStep("de") =>
          \A i \in 1..Len(sel_data) :
              sel_data[i].expires_utc = 0 =>
                  /\ member(sel_data[i], sel_data')
                  /\ sel_data[i] \in store => sel_data[i] \in store']_vars

\* C4: every cookie a delete command (dn, da, de, db) removes from the
\* selection was deleted from the store by that command: the selection never
\* drops a cookie that is left in the store.
C4_SelectionDropsOnlyDeletedCookies ==
    [][(sel_type = "cookies" /\ out'.cmd \in {"dn", "da", "de", "db"}) =>
          \A i \in 1..Len(sel_data) :
              ~member(sel_data[i], sel_data') => sel_data[i] \notin store']_vars

\* C5: range validation is atomic: when some spec of the number_range, in any
\* position, is malformed or out of range for the selection, dn reports an
\* error and leaves the selection, both lists and the store as they were.
C5_RangeValidationIsAtomic ==
    [][(RangeStep /\ \E i \in 1..Len(dn_specs) : ~GoodSpec(dn_specs[i], Len(sel_data))) =>
          /\ out'.fault = "none"
          /\ out'.status = 1
          /\ out'.msg \in {"invalid_chars", "out_of_range", "unsupported"}
          /\ sel_data' = sel_data
          /\ store' = store
          /\ whitelist' = whitelist
          /\ blacklist' = blacklist]_vars

\* dn was given a first spec that names a cookie of the selection and a second
\* spec that is malformed or out of range; it reported an error, and the
\* cookies are all still selected and stored
C5_Witness ==
    /\ dn_pc = "return"
    /\ sel_type = "cookies"
    /\ Len(dn_specs) = 2
    /\ GoodSpec(dn_specs[1], Len(sel_data))
    /\ SpecIndices(dn_specs[1]) # {}
    /\ ~GoodSpec(dn_specs[2], Len(sel_data))
    /\ out.status = 1
    /\ sel_data = cookie_find_all(store)

\* C6: delete-by-number has set semantics: for an accepted number_range that
\* resolves to the index set S, the selection afterwards is the original with
\* exactly the items at the positions in S removed, the rest in their order,
\* and the reported count is |S|.
C6_DeleteByNumberHasSetSemantics ==
    [][(/\ RangeStep
        /\ dn_specs # <<>>
        /\ \A i \in 1..Len(dn_specs) : GoodSpec(dn_specs[i], Len(sel_data))) =>
          /\ out'.fault = "none"
          /\ out'.status = 0
          /\ sel_data' = Without(sel_data, IndexSet(dn_specs), 1)
          /\ out'.ct = Cardinality(IndexSet(dn_specs))]_vars

\* C7: delete-all on a cookie selection partitions by whitelist: the selection
\* afterwards is exactly the cookies whose host matches a whitelist pattern, in
\* their order; those are still in the store; every other cookie of the
\* selection is gone from the store; and the reported count is the number of
\* the others.
C7_DeleteAllPartitionsByWhitelist ==
    [][CookieStep("da") =>
          /\ out'.fault = "none"
          /\ out'.status = 0
          /\ sel_data' = Kept(sel_data, Protected)
          /\ \A i \in 1..Len(sel_data) :
                IF Protected(sel_data[i])
                THEN sel_data[i] \in store => sel_data[i] \in store'
                ELSE sel_data[i] \notin store'
          /\ out'.ct = Cardinality({ i \in 1..Len(sel_data) : ~Protected(sel_data[i]) })]_vars

\* da has just deleted some cookies and left one that the whitelist protects
C7_Witness ==
    /\ CookieSelection
    /\ out.cmd = "da"
    /\ out.ct >= 1
    /\ Len(sel_data) >= 1
    /\ \A i \in 1..Len(sel_data) : Protected(sel_data[i]) /\ sel_data[i] \in store

\* C8: delete-expired at time T removes from the store and from the selection
\* every cookie with nonzero expiry below T, and retains every cookie with
\* expiry >= T, the retained cookies in their original order.
C8_DeleteExpiredSplitsAtNow ==
    CookieSelection =>
        \A ts \in Times :
            LET r == delete_by_expired(ts)
                kept(c) == member(c, r.data)
            IN  /\ r.fault = "none"
                /\ r.data = Kept(sel_data, kept)
                /\ \A i \in 1..Len(sel_data) :
                      LET c == sel_data[i] IN
                      /\ (c.expires_utc # 0 /\ c.expires_utc < ts) =>
                             (~member(c, r.data) /\ c \notin r.db)
                      /\ (c.expires_utc >= ts) =>
                             (member(c, r.data) /\ (c \in store => c \in r.db))

\* de has just deleted the cookie that expired at 1 and kept the one that
\* expires at 3; the session cookie had been deleted before
C8_Witness ==
    /\ CookieSelection
    /\ out.cmd = "de"
    /\ out.ct = 1
    /\ \E c \in InitialRows : c.expires_utc = 1 /\ c \notin store
    /\ \E i \in 1..Len(sel_data) :
          sel_data[i].expires_utc = 3 /\ sel_data[i] \in store

(***************************************************************************)
(* C11 - C20                                                               *)
(***************************************************************************)
\* C11: range parsing either reports an error or yields a non-empty collection
\* of indices, all within 1..m for a selection of m items: a number_range that
\* dn accepts (an inverted range included) never resolves to zero indices, so
\* an accepted dn removes something.
C11_AcceptedRangeIsNeverEmpty ==
    [][(RangeStep /\ dn_specs # <<>>) =>
          LET v == validate_specs(dn_specs, <<>>)
          IN  \/ /\ v.res # "ok"
                 /\ out'.status = 1
              \/ /\ v.res = "ok"
                 /\ v.idxs # <<>>
                 /\ \A i \in 1..Len(v.idxs) : v.idxs[i] \in 1..Len(sel_data)
                 /\ Len(sel_data') < Len(sel_data)]_vars

\* C12: no command raises an unhandled fault, in any reachable state, the
\* state before the first select command included: every command returns a
\* status and reports its problems as messages.
C12_NoCommandRaises == running # "crashed" /\ out.fault = "none"

\* the selection is a whitelist or a blacklist selection
ListSelection == sel_type \in {"whitelist", "blacklist"}

\* the list that selection.type names
TargetList == IF sel_type = "whitelist" THEN whitelist ELSE blacklist

\* no host occurs twice in lst
NoDup(lst) == \A i, j \in 1..Len(lst) : lst[i] = lst[j] => i = j

\* C13: add-host on a whitelist or blacklist selection, full or filtered by
\* host, is rejected exactly when the host is already an item of the
\* selection; otherwise it appends the host to the selection: the host is the
\* last item afterwards and the count is one larger.
C13_AddHostAppendsToSelection ==
    [][\A host \in AddHosts :
          (host # <<>> /\ ListSelection /\ out'.cmd = "ah" /\ cmd_add_host(host)) =>
              IF member(host, sel_data)
              THEN out'.status = 1 /\ sel_data' = sel_data
              ELSE /\ out'.status = 0
                   /\ sel_data' = Append(sel_data, host)]_vars

\* C14: a whitelist and a blacklist that are duplicate-free when loaded stay
\* duplicate-free through every sequence of commands, and adding a host that
\* the targeted list already holds is rejected with an error and changes
\* nothing.
C14_ListsStayDuplicateFree ==
    /\ [](NoDup(whitelist) /\ NoDup(blacklist))
    /\ [][\A host \in AddHosts :
             (host # <<>> /\ ListSelection /\ member(host, TargetList)
                /\ out'.cmd = "ah" /\ cmd_add_host(host)) =>
                 /\ out'.status = 1
                 /\ out'.msg = "already_in_list"
                 /\ UNCHANGED <<store, whitelist, blacklist, sel_data, sel_type,
                                sel_page, saved_wl, saved_bl>>]_vars

\* an add-host has just been rejected because the blacklist, which holds two
\* hosts, already holds the host
C14_Witness ==
    /\ running = "running"
    /\ sel_type = "blacklist"
    /\ out.cmd = "ah"
    /\ out.msg = "already_in_list"
    /\ Len(blacklist) = 2
    /\ \E host \in AddHosts : host # <<>> /\ member(host, blacklist)

\* the smallest page index p with p * pg >= len
SmallestPageCovering(len, pg) ==
    CHOOSE p \in 0..len : p * pg >= len /\ \A q \in 0..(p - 1) : q * pg < len

\* the smallest page index p with (p + 1) * pg >= len: the page that shows
\* the last item
PageOfLastItem(len, pg) ==
    CHOOSE p \in 0..len : (p + 1) * pg >= len /\ \A q \in 0..(p - 1) : (q + 1) * pg < len

\* the step is next-page with page size pg, on a selection
NextPageStep(pg) == has_data /\ out'.cmd = "n" /\ cmd_next_page(pg)

\* C15 (as claimed): next-page advances the cursor by one whenever the page is
\* below the last page and refuses only at the last page, the last page being
\* the smallest p with p * pageSize >= length.
C15_Original_LastPageCoversLength ==
    [][\A pg \in PageSizes :
          NextPageStep(pg) =>
              LET last == SmallestPageCovering(Len(sel_data), pg)
              IN  IF sel_page < last THEN sel_page' = sel_page + 1
                  ELSE sel_page' = sel_page /\ out'.msg = "last_page"]_vars

\* C15 (amended): next-page advances the cursor by one whenever the page is
\* below the last page and refuses otherwise, the last page being the smallest
\* p with (p + 1) * pageSize >= length; a cursor at or below the last page
\* stays at or below it.
C15_LastPageShowsLastItem ==
    [][\A pg \in PageSizes :
          NextPageStep(pg) =>
              LET last == PageOfLastItem(Len(sel_data), pg)
              IN  /\ IF sel_page < last
                     THEN sel_page' = sel_page + 1 /\ out'.msg = ""
                     ELSE sel_page' = sel_page /\ out'.msg = "last_page"
                  /\ sel_page <= last => sel_page' <= last
                  /\ out'.status = 0]_vars

\* next-page has just advanced the cursor to page 2 of three cookies
C15_Witness ==
    /\ running = "running"
    /\ sel_type = "cookies"
    /\ out.cmd = "n"
    /\ out.msg = ""
    /\ Len(sel_data) = 3
    /\ sel_page = 2

\* C16: the boundaries of pagination leave the cursor unchanged: previous-page
\* at page 0 keeps the cursor at 0, and the cursor is never negative;
\* next-page with no item beyond the page, (page + 1) * pageSize >= length,
\* keeps the cursor; in both cases a warning is reported and the selection,
\* the lists and the store are unchanged.
C16_PageBoundariesKeepCursor ==
    /\ [](sel_page >= 0)
    /\ [][/\ (sel_page = 0 /\ out'.cmd = "p" /\ cmd_prev_page) =>
               /\ sel_page' = 0
               /\ out'.msg = "first_page"
               /\ UNCHANGED <<store, whitelist, blacklist, sel_data, sel_type>>
          /\ \A pg \in PageSizes :
               (NextPageStep(pg) /\ (sel_page + 1) * pg >= Len(sel_data)) =>
                   /\ sel_page' = sel_page
                   /\ out'.msg = "last_page"
                   /\ UNCHANGED <<store, whitelist, blacklist, sel_data, sel_type>>]_vars

\* previous-page has just been refused at page 0 of a selection
C16_Witness ==
    /\ running = "running"
    /\ has_data
    /\ out.cmd = "p"
    /\ out.msg = "first_page"
    /\ sel_page = 0

\* C17: a command that does not fit the kind of the selection is rejected
\* without effect: de, db and v on a whitelist or blacklist selection, and ah
\* on a cookie selection, report an error, return a positive status and leave
\* the selection (items, page, kind), both lists and the store unchanged.
C17_WrongKindIsRejectedWithoutEffect ==
    [][(\/ ListSelection /\ out'.cmd \in {"de", "db", "v"}
        \/ sel_type = "cookies" /\ out'.cmd = "ah") =>
          /\ out'.fault = "none"
          /\ out'.status > 0
          /\ out'.msg # ""
          /\ UNCHANGED <<sel_data, sel_page, sel_type, whitelist, blacklist, store>>]_vars

\* add-host with a host has just been refused on a selection of three cookies
C17_Witness ==
    /\ running = "running"
    /\ sel_type = "cookies"
    /\ Len(sel_data) = 3
    /\ out.cmd = "ah"
    /\ out.msg = "lists_only"
    /\ out.status = 1

\* the messages that report a user-facing error
UserErrors ==
    { "unknown_command", "missing_arg", "invalid_chars", "out_of_range", "unsupported",
      "invalid_number", "exceeds_range", "cookies_only", "lists_only", "already_in_list",
      "no_selection" }

\* C18: the status of a statement follows the sign convention: it is positive
\* whenever a user-facing error was reported (unknown command, missing
\* argument, invalid or out-of-range number, wrong selection kind, duplicate
\* host) and zero only when the command succeeded.
C18_StatusSignConvention ==
    /\ out.msg \in UserErrors => out.status > 0
    /\ (out.fault = "none" /\ out.status = 0) => out.msg \notin UserErrors

\* C19: exit without saving never writes the lists: after x the saved
\* whitelist and blacklist are the ones loaded at startup; quit saves exactly
\* the whitelist and blacklist in memory at that moment.
C19_ExitKeepsSavedListsQuitWritesThem ==
    [][/\ (out'.cmd = "x" /\ running' = "exited") =>
             \E files \in ListFiles : saved_wl' = files[1] /\ saved_bl' = files[2]
       /\ (out'.cmd = "q" /\ running' = "exited") =>
             /\ saved_wl' = whitelist
             /\ saved_bl' = blacklist
             /\ UNCHANGED <<whitelist, blacklist>>]_vars

\* the program has exited with x after the blacklist was changed in memory,
\* and the saved blacklist is not the one in memory
C19_Witness ==
    /\ running = "exited"
    /\ out.cmd = "x"
    /\ blacklist # saved_bl

\* C20: deleting from a whitelist or blacklist selection, made by select-all
\* or by select-by-host, deletes from the list itself: every entry that dn or
\* da removes from the selection is also removed from the whitelist or
\* blacklist in memory.
C20_ListSelectionDeletesFromList ==
    [][(ListSelection /\ out'.cmd \in {"dn", "da"}) =>
          \A i \in 1..Len(sel_data) :
              ~member(sel_data[i], sel_data') => ~member(sel_data[i], TargetList')]_vars

(***************************************************************************)
(* C21 - C23                                                               *)
(***************************************************************************)
\* C21: the page cursor always addresses an existing page: in every state
\* reached by select, paging and delete commands, page = 0 or
\* page * pageSize < length of the selection, whatever page size of the
\* terminal is taken.
C21_CursorAddressesExistingPage ==
    (running = "running" /\ has_data) =>
        \/ sel_page = 0
        \/ \E pg \in PageSizes : sel_page * pg < Len(sel_data)

\* the cookies a delete step took out of the store
Removed == store \ store'

\* the cookies of the selection at the one-based positions in S
ItemsAt(S) == { sel_data[i] : i \in S \cap (1..Len(sel_data)) }

\* the number_range is accepted for the selection
Accepted(number_range) ==
    /\ number_range # <<>>
    /\ \A i \in 1..Len(split(number_range, ",")) :
          GoodSpec(split(number_range, ",")[i], Len(sel_data))

\* C22: store deletions are confined to the targeted items of the selection:
\* with unique (host, name, path) keys, a delete command on a cookie selection
\* (one narrowed by select-by-host included) takes out of the store only
\* cookies of the selection that the command targets; a delete command on a
\* whitelist or blacklist selection leaves the store unchanged.
C22_StoreDeletionsAreConfined ==
    [][(out'.cmd \in {"dn", "da", "de", "db"}) =>
          /\ store' \subseteq store
          /\ Removed \subseteq Range(sel_data)
          /\ sel_type # "cookies" => store' = store
          /\ sel_type = "cookies" =>
                /\ \A number_range \in NumberRanges :
                      (out'.cmd = "dn" /\ cmd_delete_by_number(number_range)) =>
                          IF Accepted(number_range)
                          THEN Removed \subseteq ItemsAt(IndexSet(split(number_range, ",")))
                          ELSE Removed = {}
                /\ out'.cmd = "da" => \A c \in Removed : ~Protected(c)
                /\ \A ts \in Times :
                      (out'.cmd = "de" /\ cmd_delete_by_expired(ts)) =>
                          \A c \in Removed : c.expires_utc < ts
                /\ out'.cmd = "db" =>
                      \A c \in Removed : Blacklisted(c) /\ ~Protected(c)]_vars

\* dn has just deleted the only cookie of a selection narrowed by host, and
\* the two cookies outside the selection are still in the store
C22_Witness ==
    /\ running = "running"
    /\ sel_type = "cookies"
    /\ out.cmd = "dn"
    /\ out.ct = 1
    /\ sel_data = <<>>
    /\ Cardinality(store) = MaxCookies - 1

\* C23: within one process a cookie selection never lists a cookie that is
\* gone from the store: after any sequence of select and delete commands,
\* every cookie of the current cookie selection is in the store.
C23_SelectionListsOnlyStoredCookies ==
    (running # "crashed" /\ sel_type = "cookies") =>
        \A i \in 1..Len(sel_data) : sel_data[i] \in store

\* a delete command has just removed cookies from the store and left others
\* in the selection
C23_Witness ==
    /\ running = "running"
    /\ sel_type = "cookies"
    /\ out.cmd \in {"dn", "da", "de", "db"}
    /\ out.ct >= 1
    /\ store # InitialRows
    /\ Len(sel_data) >= 1

====
